---- MODULE Spec2Model ----
(***************************************************************************)
(* comment-remover: the Remove command of src/main.rs.                     *)
(*                                                                         *)
(* Text is a sequence of one-character strings; offsets are the 0-based    *)
(* byte offsets the code uses (the character at offset i is text[i+1]).    *)
(* The two regular expressions get_comment_patterns builds are modelled by *)
(* what the regex crate's leftmost-first search returns for them.          *)
(***************************************************************************)
EXTENDS Integers, Sequences, FiniteSets, TLC

\* ------------------------------------------------------------------ bounds
MaxLen == 6          \* longest file content of a C file that is enumerated
MaxRuns == 2         \* how many times the command is run on the same file

\* ------------------------------------------------------------------ text
Alphabet == {"/", "*", "\n", "a"}

Strs(n) == UNION {[1..k -> Alphabet] : k \in 0..n}

NoMatch == [start |-> -1, end |-> -1]
NoFile == <<"<absent>">>
NoExt == <<"<none>">>

At(text, i) == text[i + 1]

Min(S) == CHOOSE x \in S : \A y \in S : x <= y
Max(S) == CHOOSE x \in S : \A y \in S : x >= y

\* \s of the regex crate, on the characters of the model
IsSpace(c) == c \in {" ", "\n"}

\* how many characters a greedy \s* can take at offset i
WsRun(text, i) ==
    LET ns == {j \in i..(Len(text) - 1) : ~IsSpace(At(text, j))}
    IN IF ns = {} THEN Len(text) - i ELSE Min(ns) - i

\* where a greedy .* stops from offset i: the next line break or the end
LineEnd(text, i) ==
    LET nl == {j \in i..(Len(text) - 1) : At(text, j) = "\n"}
    IN IF nl = {} THEN Len(text) ELSE Min(nl)

\* (?m)^ at offset p
LineStart(text, p) == p = 0 \/ At(text, p - 1) = "\n"

\* the escaped literal tok at offset i
HasAt(text, tok, i) ==
    /\ i >= 0
    /\ i + Len(tok) <= Len(text)
    /\ \A k \in 1..Len(tok) : text[i + k] = tok[k]

\* ------------------------------------------------------------ rule model
\* The rule set load_syntax_rules returns (syntax_rules.json is data, read at
\* run time): two languages in the file's format.
SingleRule(tok) == [pattern |-> tok]
MultiRule(s, e) == [start |-> s, end |-> e]

RuleSet ==
    [c |-> [name |-> "C",
            extensions |-> << <<"c">>, <<"h">> >>,
            single_line |-> << SingleRule(<<"/", "/">>) >>,
            multi_line |-> << MultiRule(<<"/", "*">>, <<"*", "/">>) >>],
     python |-> [name |-> "Python",
                 extensions |-> << <<"p", "y">> >>,
                 single_line |-> << SingleRule(<<"#">>) >>,
                 multi_line |-> << >>]]

NoLanguage == [name |-> "<none>", extensions |-> << >>,
               single_line |-> << >>, multi_line |-> << >>]

\* ------------------------------------------------------- Pattern Compiler
\* One compiled pattern per rule, single-line rules first, in declared order.
\* regex::escape makes the token a literal, so a pattern is its kind and its
\* literal tokens.
get_comment_patterns(language) ==
    [i \in 1..Len(language.single_line) |->
        [kind |-> "single", tok |-> language.single_line[i].pattern,
         close |-> << >>]]
    \o
    [i \in 1..Len(language.multi_line) |->
        [kind |-> "multi", tok |-> language.multi_line[i].start,
         close |-> language.multi_line[i].end]]

\* (?m)^\s*TOK\s*.*$ tried at offset p: the end of the match, or -1.
\* The first \s* is greedy and gives back until TOK fits; after TOK the rest
\* always succeeds on its first try: \s* takes every whitespace character
\* (line breaks included), .* runs to the end of that line, $ holds there.
SingleMatchEnd(text, tok, p) ==
    IF ~LineStart(text, p) THEN -1
    ELSE LET ws == {w \in 0..WsRun(text, p) : HasAt(text, tok, p + w)}
         IN IF ws = {} THEN -1
            ELSE LET q == p + Max(ws) + Len(tok)
                 IN LineEnd(text, q + WsRun(text, q))

\* mutant of LazyPick: the run is greedy, [\s\S]*
LazyPick_Greedy(ks) == Max(ks)

\* The lazy [\s\S]*? of the multi-line pattern: of the lengths k that let the
\* rest match, the shortest.
LazyPick(ks) == Min(ks)

\* START\s*[\s\S]*?\s*END tried at offset p: the end of the match, or -1.
\* Backtracking order: the first \s* from its longest, then the lazy run from
\* its shortest, then the second \s* from its longest.
MultiMatchEnd(text, open, close, p) ==
    IF ~HasAt(text, open, p) THEN -1
    ELSE LET q == p + Len(open)
             fits(w1, k, w2) == HasAt(text, close, q + w1 + k + w2)
             ok2(w1, k) == {w2 \in 0..WsRun(text, q + w1 + k) : fits(w1, k, w2)}
             ok1(w1) == {k \in 0..(Len(text) - q - w1) : ok2(w1, k) # {}}
             ws == {w1 \in 0..WsRun(text, q) : ok1(w1) # {}}
         IN IF ws = {} THEN -1
            ELSE LET w1 == Max(ws)
                     k == LazyPick(ok1(w1))
                     w2 == Max(ok2(w1, k))
                 IN q + w1 + k + w2 + Len(close)

MatchEnd(text, pat, p) ==
    IF pat.kind = "single" THEN SingleMatchEnd(text, pat.tok, p)
    ELSE MultiMatchEnd(text, pat.tok, pat.close, p)

\* Regex::find_at: the leftmost match starting at or after offset
find_at(text, pat, offset) ==
    LET starts == {p \in offset..Len(text) : MatchEnd(text, pat, p) # -1}
    IN IF starts = {} THEN NoMatch
       ELSE LET s == Min(starts)
            IN [start |-> s, end |-> MatchEnd(text, pat, s)]

\* mutant of replace_range: the range's last character is left behind
replace_range_Short(text, start, end) ==
    SubSeq(text, 1, start) \o SubSeq(text, end, Len(text))

\* String::replace_range(start..end, "")
replace_range(text, start, end) ==
    SubSeq(text, 1, start) \o SubSeq(text, end + 1, Len(text))

\* ---------------------------------------------------- Confirmation Policy
\* input.trim().to_lowercase() == "y", on the answers of the model
TrimLower(answer) ==
    CASE answer = "Y" -> "y"
      [] answer = " y" -> "y"
      [] answer = "YES" -> "yes"
      [] OTHER -> answer

\* the lines a user types at the prompt
Answers == {"y", "Y", " y", "yes", "n", ""}

\* mutant of should_remove_comment: the prompt is consulted in automatic mode too
should_remove_comment_Ask(auto_, answer) == TrimLower(answer) = "y"

should_remove_comment(auto_, answer) ==
    IF auto_ THEN TRUE ELSE TrimLower(answer) = "y"

\* ------------------------------------------------------ Language Detector
\* Path::extension of a path that is one segment: nothing for "..", for a
\* name without a dot, and for a name whose only dot is its first character;
\* otherwise what follows the last dot.
Extension(name) ==
    LET dots == {i \in 1..Len(name) : name[i] = "."}
    IN IF name = <<".", ".">> \/ dots = {} \/ Max(dots) = 1 THEN NoExt
       ELSE SubSeq(name, Max(dots) + 1, Len(name))

\* mutant of HasExtension: the comparison folds case
LowerChar(ch) == IF ch = "C" THEN "c" ELSE ch
HasExtension_AnyCase(lang, ext) ==
    \E i \in 1..Len(lang.extensions) :
        lang.extensions[i] = [j \in 1..Len(ext) |-> LowerChar(ext[j])]

\* lang_rules.extensions.iter().any(|ext| ext == extension)
HasExtension(lang, ext) ==
    \E i \in 1..Len(lang.extensions) : lang.extensions[i] = ext

\* the languages detect_file_type may return for the path (the map's iteration
\* order is unspecified)
Detected(name) ==
    IF Extension(name) = NoExt THEN {}
    ELSE {k \in DOMAIN RuleSet : HasExtension(RuleSet[k], Extension(name))}

\* the UnsupportedFileType error for the path
UnsupportedFileType(name) ==
    IF Extension(name) = NoExt
    THEN [kind |-> "UnsupportedFileType", arg |-> <<"No file extension found">>]
    ELSE [kind |-> "UnsupportedFileType", arg |-> Extension(name)]

NoError == [kind |-> "none", arg |-> << >>]

\* ------------------------------------------------------------------ state
VARIABLES
    pc,               \* where main is: start, detect, compile, scan, compare,
                      \* write, done, failed
    file_path,        \* the file argument (one path segment)
    auto,             \* --auto
    force,            \* --force
    disk_file,        \* the file's content on disk
    disk_bak,         \* the content of <file>.bak on disk, or NoFile
    content,          \* main's content, as read
    language,         \* what detect_file_type returned
    patterns,         \* what get_comment_patterns returned
    result,           \* remove_comments: the working copy
    pidx,             \* remove_comments: which pattern the for loop is at
    offset,           \* remove_comments: the search cursor
    comments_found,
    comments_removed,
    err,              \* the error main returned
    run,              \* which invocation of the command this is
    \* history, kept for the properties only
    origin,           \* for each character of result, its offset+1 in content
    rejected,         \* the rejected spans, each as its characters' origins
    removed_len,      \* total length of the accepted matches
    asked,            \* how often should_remove_comment was called
    yes,              \* how often it returned true
    deleted_inline,   \* some deleted span began after code on its line
    writes            \* the files written by this invocation, in order

vars == <<pc, file_path, auto, force, disk_file, disk_bak, content, language,
          patterns, result, pidx, offset, comments_found, comments_removed,
          err, run, origin, rejected, removed_len, asked, yes, deleted_inline,
          writes>>

cli == <<file_path, auto, force>>
scan == <<result, pidx, offset, comments_found, comments_removed>>
history == <<origin, rejected, removed_len, asked, yes, deleted_inline>>

\* ----------------------------------------------------------------- inputs
CFile == <<"a", ".", "c">>

OtherFiles ==
    { <<"b", ".", "h">>, <<"a", ".", "p", "y">>, <<"a", ".", "C">>,
      <<"a", ".", "x">>, <<"a">>, <<".", "c">>, <<"a", ".">>,
      <<"a", ".", "c", ".", "x">> }

\* `/* a */ code /* b */` without its blanks, and with them
TwoComments == <<"/", "*", "*", "/", "a", "/", "*", "*", "/">>
TwoCommentsSpaced ==
    <<"/", "*", " ", "a", " ", "*", "/", "a", "/", "*", " ", "a", " ", "*", "/">>

SmallContents ==
    { << >>, <<"#", "a">>, <<"/", "/", "a">>, <<"a", "\n", "#", " ", "a">>,
      <<"a", " ", "#">> }

Inputs(n) ==
    ({CFile} \X (Strs(n) \cup {TwoComments, TwoCommentsSpaced}))
    \cup (OtherFiles \X SmallContents)

InitWith(n) ==
    /\ pc = "start"
    /\ \E in \in Inputs(n) : file_path = in[1] /\ disk_file = in[2]
    /\ auto \in BOOLEAN
    /\ force \in BOOLEAN
    /\ disk_bak = NoFile
    /\ content = << >>
    /\ language = NoLanguage
    /\ patterns = << >>
    /\ result = << >>
    /\ pidx = 0
    /\ offset = 0
    /\ comments_found = 0
    /\ comments_removed = 0
    /\ err = NoError
    /\ run = 1
    /\ origin = << >>
    /\ rejected = {}
    /\ removed_len = 0
    /\ asked = 0
    /\ yes = 0
    /\ deleted_inline = FALSE
    /\ writes = << >>

Init == InitWith(MaxLen)

\* ------------------------------------------------------------------- main
\* fs::read_to_string(file_path)?
ReadFile ==
    /\ pc = "start"
    /\ content' = disk_file
    /\ pc' = "detect"
    /\ UNCHANGED <<cli, disk_file, disk_bak, language, patterns, scan, err,
                   run, history, writes>>

ReadFileFails ==
    /\ pc = "start"
    /\ err' = [kind |-> "Io", arg |-> <<"Failed to read file">>]
    /\ pc' = "failed"
    /\ UNCHANGED <<cli, disk_file, disk_bak, content, language, patterns,
                   scan, run, history, writes>>

\* detect_file_type(file_path, &syntax_rules)? : a language is found
DetectFileType ==
    /\ pc = "detect"
    /\ \E k \in Detected(file_path) : language' = RuleSet[k]
    /\ pc' = "compile"
    /\ UNCHANGED <<cli, disk_file, disk_bak, content, patterns, scan, err,
                   run, history, writes>>

\* detect_file_type(file_path, &syntax_rules)? : the error leaves main
DetectFileTypeFails ==
    /\ pc = "detect"
    /\ Detected(file_path) = {}
    /\ err' = UnsupportedFileType(file_path)
    /\ pc' = "failed"
    /\ UNCHANGED <<cli, disk_file, disk_bak, content, language, patterns,
                   scan, run, history, writes>>

\* get_comment_patterns, and remove_comments up to its for loop
Compile ==
    /\ pc = "compile"
    /\ patterns' = get_comment_patterns(language)
    /\ result' = content
    /\ origin' = [i \in 1..Len(content) |-> i]
    /\ pidx' = 1
    /\ offset' = 0
    /\ comments_found' = 0
    /\ comments_removed' = 0
    /\ pc' = "scan"
    /\ UNCHANGED <<cli, disk_file, disk_bak, content, language, err, run,
                   rejected, removed_len, asked, yes, deleted_inline, writes>>

\* ---------------------------------------------------------- remove_comments
\* the pattern of the for loop and its next match in the working copy
CurPattern == patterns[pidx]
CurMatch == find_at(result, CurPattern, offset)
InLoop == pc = "scan" /\ pidx <= Len(patterns)

\* mutant of NextOffset: a kept match does not move the cursor past it
NextOffset_Stay(mat, remove) == mat.start

\* the cursor after a decision
NextOffset(mat, remove) == IF remove THEN mat.start ELSE mat.end

\* offset p of text has code before it on its line
AfterCode(text, p) ==
    \E j \in 0..(p - 1) :
        /\ ~IsSpace(At(text, j))
        /\ \A i \in j..(p - 1) : At(text, i) # "\n"

\* one turn of the while loop: a match is found and removed
ScanRemove ==
    /\ InLoop
    /\ CurMatch # NoMatch
    /\ \E answer \in Answers : should_remove_comment(auto, answer)
    /\ LET mat == CurMatch
       IN /\ result' = replace_range(result, mat.start, mat.end)
          /\ origin' = replace_range(origin, mat.start, mat.end)
          /\ offset' = NextOffset(mat, TRUE)
          /\ removed_len' = removed_len + (mat.end - mat.start)
          /\ deleted_inline' = (deleted_inline \/ AfterCode(result, mat.start))
    /\ comments_found' = comments_found + 1
    /\ comments_removed' = comments_removed + 1
    /\ asked' = asked + 1
    /\ yes' = yes + 1
    /\ UNCHANGED <<pc, cli, disk_file, disk_bak, content, language, patterns,
                   pidx, err, run, rejected, writes>>

\* one turn of the while loop: a match is found and the user keeps it
ScanKeep ==
    /\ InLoop
    /\ CurMatch # NoMatch
    /\ \E answer \in Answers : ~should_remove_comment(auto, answer)
    /\ LET mat == CurMatch
       IN /\ offset' = NextOffset(mat, FALSE)
          /\ rejected' = rejected \cup {SubSeq(origin, mat.start + 1, mat.end)}
    /\ comments_found' = comments_found + 1
    /\ asked' = asked + 1
    /\ UNCHANGED <<pc, cli, disk_file, disk_bak, content, language, patterns,
                   result, pidx, comments_removed, err, run, origin,
                   removed_len, yes, deleted_inline, writes>>

\* the while loop ends: no match at or after the cursor; on to the next pattern
NextPattern ==
    /\ InLoop
    /\ CurMatch = NoMatch
    /\ pidx' = pidx + 1
    /\ offset' = 0
    /\ UNCHANGED <<pc, cli, disk_file, disk_bak, content, language, patterns,
                   result, comments_found, comments_removed, err, run,
                   history, writes>>

\* the for loop ends: remove_comments returns (result, found, removed)
Return ==
    /\ pc = "scan"
    /\ pidx > Len(patterns)
    /\ pc' = "compare"
    /\ UNCHANGED <<cli, disk_file, disk_bak, content, language, patterns,
                   scan, err, run, history, writes>>

\* ------------------------------------------------------ main, after the scan
\* mutant of NeedsBackup: the backup is never made
NeedsBackup_Never(force_) == FALSE

\* if !force
NeedsBackup(force_) == ~force_

\* new_content == content: nothing is written
Unchanged ==
    /\ pc = "compare"
    /\ result = content
    /\ pc' = "done"
    /\ UNCHANGED <<cli, disk_file, disk_bak, content, language, patterns,
                   scan, err, run, history, writes>>

\* fs::write(&backup_path, content)?
WriteBackup ==
    /\ pc = "compare"
    /\ result # content
    /\ NeedsBackup(force)
    /\ disk_bak' = content
    /\ writes' = Append(writes, "bak")
    /\ pc' = "write"
    /\ UNCHANGED <<cli, disk_file, content, language, patterns, scan, err,
                   run, history>>

WriteBackupFails ==
    /\ pc = "compare"
    /\ result # content
    /\ NeedsBackup(force)
    /\ err' = [kind |-> "Io", arg |-> <<"Failed to create backup file">>]
    /\ pc' = "failed"
    /\ UNCHANGED <<cli, disk_file, disk_bak, content, language, patterns,
                   scan, run, history, writes>>

\* --force: no backup
SkipBackup ==
    /\ pc = "compare"
    /\ result # content
    /\ ~NeedsBackup(force)
    /\ pc' = "write"
    /\ UNCHANGED <<cli, disk_file, disk_bak, content, language, patterns,
                   scan, err, run, history, writes>>

\* fs::write(file_path, new_content)?
WriteFile ==
    /\ pc = "write"
    /\ disk_file' = result
    /\ writes' = Append(writes, "file")
    /\ pc' = "done"
    /\ UNCHANGED <<cli, disk_bak, content, language, patterns, scan, err,
                   run, history>>

WriteFileFails ==
    /\ pc = "write"
    /\ err' = [kind |-> "Io", arg |-> <<"Failed to write modified file">>]
    /\ pc' = "failed"
    /\ UNCHANGED <<cli, disk_file, disk_bak, content, language, patterns,
                   scan, run, history, writes>>

\* the command is run again, with the same arguments, on the file it wrote
RunAgain ==
    /\ pc = "done"
    /\ auto
    /\ run < MaxRuns
    /\ writes # << >>
    /\ run' = run + 1
    /\ pc' = "start"
    /\ content' = << >>
    /\ language' = NoLanguage
    /\ patterns' = << >>
    /\ result' = << >>
    /\ pidx' = 0
    /\ offset' = 0
    /\ comments_found' = 0
    /\ comments_removed' = 0
    /\ origin' = << >>
    /\ rejected' = {}
    /\ removed_len' = 0
    /\ asked' = 0
    /\ yes' = 0
    /\ deleted_inline' = FALSE
    /\ writes' = << >>
    /\ UNCHANGED <<cli, disk_file, disk_bak, err>>

Next ==
    \/ ReadFile
    \/ ReadFileFails
    \/ DetectFileType
    \/ DetectFileTypeFails
    \/ Compile
    \/ ScanRemove
    \/ ScanKeep
    \/ NextPattern
    \/ Return
    \/ Unchanged
    \/ WriteBackup
    \/ WriteBackupFails
    \/ SkipBackup
    \/ WriteFile
    \/ WriteFileFails
    \/ RunAgain

Spec == Init /\ [][Next]_vars

\* ------------------------------------------------------------- properties
IsInfix(sp, s) ==
    \E i \in 0..(Len(s) - Len(sp)) : SubSeq(s, i + 1, i + Len(sp)) = sp

RECURSIVE IsSubseq(_, _)
IsSubseq(a, b) ==
    IF a = << >> THEN TRUE
    ELSE IF b = << >> THEN FALSE
    ELSE IF Head(a) = Head(b) THEN IsSubseq(Tail(a), Tail(b))
    ELSE IsSubseq(a, Tail(b))

Range(s) == {s[i] : i \in 1..Len(s)}

\* the nearest occurrence of tok that begins at or after offset q, or -1
NearestAt(text, tok, q) ==
    LET js == {j \in q..Len(text) : HasAt(text, tok, j)}
    IN IF js = {} THEN -1 ELSE Min(js)

\* main has read the file into content
ReadDone == pc # "start" /\ err.arg # <<"Failed to read file">>

\* the offset where the line holding offset p begins
LineBegin(text, p) ==
    LET nl == {j \in 0..(p - 1) : At(text, j) = "\n"}
    IN IF nl = {} THEN 0 ELSE Max(nl) + 1

\* C1: in automatic mode a second run on the output of the first finds no
\* comment (comments_found = 0 throughout the second run).
C1_IdempotentAuto == (run >= 2 /\ auto) => comments_found = 0

\* C2: when remove_comments has returned, every span the user rejected is
\* still in the returned content, whole and contiguous.
C2_RejectedKept ==
    pc = "compare" => \A sp \in rejected : IsInfix(sp, origin)

\* C3: every match of a single-line pattern is line-scoped: it holds no line
\* break, begins where the line of its comment token begins and ends where that
\* line ends.
C3_SingleLineScoped ==
    (InLoop /\ CurPattern.kind = "single" /\ CurMatch # NoMatch) =>
        LET m == CurMatch
            t == NearestAt(result, CurPattern.tok, m.start)
        IN /\ \A j \in m.start..(m.end - 1) : At(result, j) # "\n"
           /\ m.start = LineBegin(result, t)
           /\ m.end = LineEnd(result, t)

C5_RoundTrip ==
    pc \in {"scan", "compare"} =>
        /\ IsSubseq(result, content)
        /\ Len(origin) = Len(result)
        /\ \A i \in 1..Len(result) : result[i] = content[origin[i]]
        /\ \A i \in 1..(Len(origin) - 1) : origin[i] < origin[i + 1]
        /\ Len(result) = Len(content) - removed_len
        /\ comments_removed = 0 => result = content

C5_Witness ==
    /\ pc = "compare"
    /\ comments_removed >= 1
    /\ rejected # {}
    /\ result # << >>
    /\ Len(result) < Len(content)

\* C6: in automatic mode no deleted span begins after code on its line.
C6_OnlyNonInline == auto => ~deleted_inline

\* C7: a path with no extension, or with an extension no language lists
\* (compared exactly), gets the error UnsupportedFileType, with the extension
\* when there is one; no pattern is compiled, nothing is scanned, no file is
\* written.
Unsupported(name) ==
    \/ Extension(name) = NoExt
    \/ \A k \in DOMAIN RuleSet :
          Extension(name) \notin Range(RuleSet[k].extensions)

C7_UnsupportedFailsClosed ==
    Unsupported(file_path) =>
        /\ pc \in {"start", "detect", "failed"}
        /\ (pc = "failed" /\ err.kind # "Io") =>
              /\ err.kind = "UnsupportedFileType"
              /\ Extension(file_path) # NoExt => err.arg = Extension(file_path)
        /\ language = NoLanguage
        /\ patterns = << >>
        /\ pidx = 0
        /\ asked = 0
        /\ writes = << >>
        /\ disk_bak = NoFile
        /\ ReadDone => disk_file = content

C7_Witness ==
    /\ pc = "failed"
    /\ file_path = <<"a", ".", "C">>
    /\ err = [kind |-> "UnsupportedFileType", arg |-> <<"C">>]
    /\ disk_file = content

\* C8: comments_found is the number of times the confirmation policy was
\* consulted, comments_removed the number of times it said yes, so
\* 0 <= comments_removed <= comments_found; in automatic mode they are equal.
C8_Accounting ==
    /\ comments_found = asked
    /\ comments_removed = yes
    /\ 0 <= comments_removed
    /\ comments_removed <= comments_found
    /\ auto => comments_removed = comments_found

C8_Witness ==
    /\ pc = "compare"
    /\ ~auto
    /\ comments_found = 2
    /\ comments_removed = 1

\* C9: the file is written only when the new content differs; without --force
\* the backup, holding the original content, is written first, and a failed
\* backup leaves the file as it was; unchanged content writes nothing.
C9_BackupFirst ==
    /\ "file" \in Range(writes) => result # content /\ disk_file = result
    /\ ("file" \in Range(writes) /\ ~force) =>
          writes = <<"bak", "file">> /\ disk_bak = content
    /\ force => "bak" \notin Range(writes)
    /\ (ReadDone /\ "file" \notin Range(writes)) => disk_file = content
    /\ (pc = "failed" /\ err.arg = <<"Failed to create backup file">>) =>
          writes = << >>
    /\ (pc = "done" /\ result = content) => writes = << >>

C9_Witness ==
    /\ pc = "done"
    /\ ~force
    /\ writes = <<"bak", "file">>
    /\ disk_bak = content
    /\ disk_file = result
    /\ disk_file # content

\* C10: the scan terminates: every match is non-empty, an accepted match
\* shortens the working copy, a rejected one moves the cursor forward, the
\* cursor stays within the working copy, a pass ends when nothing matches at or
\* after the cursor, and each step of the loop lowers a rank that is never
\* negative, so remove_comments returns after finitely many steps.
C10_Rank ==
    (Len(patterns) + 1 - pidx) * (2 * Len(content) + 2) + 2 * Len(result) - offset

C10_ScanStep ==
    /\ offset' <= Len(result')
    /\ (InLoop /\ CurMatch # NoMatch) =>
          /\ CurMatch.end > CurMatch.start
          /\ comments_found' = comments_found + 1
          /\ \/ Len(result') < Len(result) /\ pidx' = pidx
             \/ result' = result /\ offset' > offset /\ pidx' = pidx
    /\ (InLoop /\ CurMatch = NoMatch) => pidx' = pidx + 1 /\ result' = result
    /\ pc = "scan" =>
          /\ C10_Rank >= 0
          /\ pc' \in {"scan", "compare"}
          /\ pc' = "scan" => C10_Rank' < C10_Rank /\ C10_Rank' >= 0

C10_Terminates == [][C10_ScanStep]_vars

C10_Witness ==
    /\ pc = "compare"
    /\ comments_found >= 2
    /\ comments_removed >= 1
    /\ rejected # {}

====
